---- MODULE Spec2Model ----
(***************************************************************************)
(* Model of the brewery record toolkit: the streaming record operators of  *)
(* brewery/base/iterator.py and the field metadata of brewery/fields.py.   *)
(*                                                                         *)
(* A stream is an iterator whose rows are not known in advance: every pull *)
(* either delivers some row or reports exhaustion, and the rows pulled so  *)
(* far are kept in a history variable.  Positions are 1-based here, the    *)
(* Python position p is p + 1.                                             *)
(***************************************************************************)
EXTENDS Integers, Sequences, FiniteSets, TLC

\* ------------------------------------------------------------------ bounds
\* longest input stream
MaxLen == 4

\* ------------------------------------------------------------- row streams
\* values a row can hold
Vals == {1, 2}
\* the field names of the stream's FieldList, in order
StreamFields == <<"f1", "f2">>
\* rows aligned to StreamFields
Rows == [1..Len(StreamFields) -> Vals]
\* key lists offered to distinct / unique
KeyLists == {<<"f1">>, <<"f2">>, <<"f1", "f2">>}
\* records: the rows as dictionaries keyed by field name
Records == [f1 : Vals, f2 : Vals]
\* predicates given to select / select_records: is_one takes one value (for
\* select_records the keyword f1, ignoring the others), equal takes two
Predicates == {"is_one", "equal"}
\* value sets given to select_from_set
ValueSets == {{}, {1}, {1, 2}}
\* steps given to sample in mode nth
Steps == 1..3

VARIABLES
    op,               \* the operator the consumer iterates over
    keys,             \* argument `keys`
    discard,          \* argument `discard`
    value,            \* argument `value` of sample
    is_sorted,        \* argument `is_sorted` of distinct
    mode,             \* argument `mode` of sample
    predicate,        \* argument `predicate` of select / select_records
    arg_fields,       \* argument `arg_fields` of select
    set_field,        \* argument `field` of select_from_set
    values,           \* argument `values` of select_from_set
    kwargs,           \* argument `kwargs` of select / select_records
    input,            \* rows pulled from the upstream iterator so far
    exhausted,        \* the upstream iterator has raised StopIteration
    distinct_values,  \* local set of distinct / unique
    count,            \* islice's counter of rows pulled
    out,              \* rows yielded to the consumer so far
    running,          \* the consumer is inside next() of the operator
    finished,         \* the operator's iterator has ended
    raised            \* the exception that ended it ("none" for StopIteration)

\* the arguments the first operators do not take
optArgs == <<is_sorted, mode, predicate, arg_fields, set_field, values, kwargs>>

streamVars == <<op, keys, discard, value, optArgs, input, exhausted,
                distinct_values, count, out, running, finished, raised>>

\* ---------------------------------------------------------- field lists
\* most fields a FieldList grows to
MaxFields == 2

\* field names
Names == {"a", "b"}
\* Field values: name, storage_type, analytical_type (label,
\* concrete_storage_type and missing_values stay None)
Fields ==
    [name : Names, storage_type : {"unknown"}, analytical_type : {"typeless"}]
    \cup [name : {"a"}, storage_type : {"integer"}, analytical_type : {"typeless"}]
\* what append is given: a name, a (name, storage_type) tuple, a description
\* dict, a Field object, or an object of another type
FieldSpecs ==
    [kind : {"str"}, name : Names]
    \cup [kind : {"tuple", "dict"}, name : {"a"}, storage_type : {"integer"}]
    \cup [kind : {"Field"}, field : Fields]
    \cup [kind : {"other"}]

VARIABLES
    lists,     \* the FieldList objects "F" and "G": _fields, _field_dict, _field_names
    gref,      \* the object the variable G refers to ("none" before F.copy())
    fl_error,  \* the exception the last FieldList call raised ("none" if it returned)
    fl_call    \* the variable the last FieldList call was made on

flVars == <<lists, gref, fl_error, fl_call>>

\* ------------------------------------------------------------ aggregate
\* longest input stream of aggregate
MaxAggLen == 3

\* the FieldList of aggregate's input
AggFields == <<"region", "amount">>
\* rows aligned to AggFields
AggRows == {<<r, a>> : r \in {1, 2}, a \in {0 - 1, 1, 2}}
\* key_fields arguments: no key, or one key field
AggKeyLists == {<<>>, <<"region">>, <<"amount">>}
\* measures arguments: a bare field name (summed) or (field, function) tuples
AggMeasureLists ==
    {<<[kind |-> "str", field |-> "amount", function |-> "sum"]>>,
     <<[kind |-> "tuple", field |-> "region", function |-> "sum"]>>}
    \cup {<<[kind |-> "tuple", field |-> "amount", function |-> f]>> :
             f \in {"sum", "min", "max", "average"}}
    \cup {<<[kind |-> "tuple", field |-> "amount", function |-> "max"],
            [kind |-> "tuple", field |-> "amount", function |-> "sum"]>>}

VARIABLES
    key_fields,     \* argument `key_fields`
    measures,       \* argument `measures`
    include_count,  \* argument `include_count`
    agg_input,      \* rows pulled from the input iterator so far
    agg_keys,       \* local `keys`
    aggregates,     \* local `aggregates`: key -> list of accumulators
    agg_pending,    \* keys the output loop has not reached yet
    agg_out,        \* rows yielded so far
    agg_pc          \* "loop": reading the input, "emit": output loop, "done"

aggVars == <<key_fields, measures, include_count, agg_input, agg_keys,
             aggregates, agg_pending, agg_out, agg_pc>>

\* ------------------------------------------------------ left_inner_join
\* longest master stream
MaxMaster == 2
\* longest detail stream
MaxDetail == 2

\* rows of the master stream
MasterRows == {<<a, b>> : a \in {1, 2}, b \in {1, 2}}
\* rows of a detail stream
DetailRows == {<<1, 1>>, <<1, 2>>, <<2, 1>>}
\* join specs (master key position, detail key position)
JoinSpecs == {<<1, 1>>, <<2, 2>>}
\* lists of at most two elements
UpToTwo(S) == {<<>>} \cup {<<x>> : x \in S} \cup {<<x, y>> : x \in S, y \in S}

VARIABLES
    n_details,   \* len(details)
    joins,       \* argument `joins`
    detail_in,   \* per detail stream, the rows pulled from it so far
    detail_dict, \* local `detail_dict` of the detail being read
    maps,        \* local `maps`
    master_in,   \* rows pulled from the master stream so far
    join_out,    \* rows yielded so far
    join_error,  \* the exception raised ("none" if none)
    join_pc      \* "start", "details", "master", "done"

joinVars == <<n_details, joins, detail_in, detail_dict, maps, master_in,
              join_out, join_error, join_pc>>

\* ------------------------------------------------------ transformations
\* longest transformation list
MaxRules == 2

\* the FieldList the transformation is compiled for
TransFields == <<"name", "age">>
\* row values; "None" is Python's None
TransVals == {"None", "x", "y"}
TransRows == [1..Len(TransFields) -> TransVals]
\* user functions of one argument: swap exchanges x and y and maps None to
\* None, nothing returns None for every argument
apply_function(f, v) ==
    IF f = "swap" THEN (IF v = "x" THEN "y" ELSE IF v = "y" THEN "x" ELSE "None")
    ELSE "None"
\* the mapping given to map rules
TransMap == [v \in {"x"} |-> "y"]
\* (target, rule) entries: action, source field, the rule's function / map /
\* value, and missing_value
TransEntries ==
    [target : {"t1", "t2"}, action : {"copy"}, source : {"name", "age"},
     arg : {"None"}, missing_value : {"None", "m"}]
    \cup [target : {"t1", "t2"}, action : {"set"}, source : {"name"},
          arg : {"active"}, missing_value : {"None"}]
    \cup [target : {"t1", "t2"}, action : {"map"}, source : {"name", "age"},
          arg : {"TransMap"}, missing_value : {"m"}]
    \cup [target : {"t1", "t2"}, action : {"function"}, source : {"name", "age"},
          arg : {"swap", "nothing"}, missing_value : {"m"}]
\* lists of at most n elements of S
RECURSIVE ListsUpTo(_, _)
ListsUpTo(S, n) ==
    IF n = 0 THEN {<<>>}
    ELSE ListsUpTo(S, n - 1)
         \cup {Append(l, x) : l \in {m \in ListsUpTo(S, n - 1) : Len(m) = n - 1}, x \in S}

VARIABLES
    transformation,  \* argument `transformation`: the list of entries
    compiled,        \* the Transformation objects bound into the mapper
    t_row,           \* the row the mapper is applied to
    t_result,        \* what the mapper returned, or the exception it raised
    t_pc             \* "start", "compiled", "done"

transVars == <<transformation, compiled, t_row, t_result, t_pc>>

\* --------------------------------------------------------------- FieldMap
\* rename mappings given to FieldMap (old name -> new name)
RenameMaps ==
    {[n \in {} |-> n], [n \in {"a"} |-> "c"], [n \in {"b"} |-> "a"],
     [n \in {"a", "b"} |-> IF n = "a" THEN "b" ELSE "c"]}
\* drop lists given to FieldMap, as sets of names
DropSets == SUBSET {"a", "b"}

VARIABLES
    fm_fields,  \* the fields of the FieldList given to FieldMap.map
    fm_rename,  \* FieldMap.rename
    fm_drop,    \* FieldMap.drop
    fm_result,  \* the FieldList map returned, or the exception it raised
    fm_pc,      \* "start", "done"
    node_result, \* the FieldList FieldMapNode.output_fields returned
    node_pc,    \* "start", "done"
    run_record, \* the record FieldMapNode.run took from its input
    run_pushed, \* the record FieldMapNode.run gave to put_record
    run_pc      \* "start", "done"

fmVars == <<fm_fields, fm_rename, fm_drop, fm_result, fm_pc, node_result, node_pc,
            run_record, run_pushed, run_pc>>

\* ---------------------------------------------------------------- to_dict
\* longest stream given to to_dict
MaxDictLen == 3

\* key arguments: None, a field name, or a list of field names
DictKeys ==
    {[kind |-> "None", names |-> <<>>]}
    \cup {[kind |-> "str", names |-> <<n>>] : n \in {"f1", "f2"}}
    \cup {[kind |-> "list", names |-> l] : l \in {<<"f2">>, <<"f1", "f2">>}}

VARIABLES
    td_key,    \* argument `key`
    td_input,  \* rows pulled from the iterator so far
    td_d,      \* local `d`, the dictionary being built
    td_error,  \* the exception raised ("none" if none)
    td_pc      \* "loop": reading the stream, "done": returned or raised

tdVars == <<td_key, td_input, td_d, td_error, td_pc>>

vars == <<streamVars, flVars, aggVars, joinVars, transVars, fmVars, tdVars>>

notStream == <<flVars, aggVars, joinVars, transVars, fmVars, tdVars>>
notFl == <<streamVars, aggVars, joinVars, transVars, fmVars, tdVars>>
notAgg == <<streamVars, flVars, joinVars, transVars, fmVars, tdVars>>
notJoin == <<streamVars, flVars, aggVars, transVars, fmVars, tdVars>>
notTrans == <<streamVars, flVars, aggVars, joinVars, fmVars, tdVars>>
notFm == <<streamVars, flVars, aggVars, joinVars, transVars, tdVars>>
notTd == <<streamVars, flVars, aggVars, joinVars, transVars, fmVars>>

\* ------------------------------------------------------------ helpers
Range(s) == {s[i] : i \in 1..Len(s)}

\* list.index: the first position holding x (0 when absent, where Python raises)
ListIndex(s, x) ==
    IF x \in Range(s) THEN CHOOSE i \in 1..Len(s) : s[i] = x /\ \A j \in 1..(i-1) : s[j] # x
    ELSE 0

\* FieldList.index on a list of names
index(field_names, field) == ListIndex(field_names, field)

\* FieldList.mask: one boolean per field, true where the field is in the subset
mask(field_names, subset) == [i \in 1..Len(field_names) |-> field_names[i] \in Range(subset)]

\* itertools.compress
RECURSIVE compress(_, _)
compress(data, selectors) ==
    IF data = <<>> \/ selectors = <<>> THEN <<>>
    ELSE (IF Head(selectors) THEN <<Head(data)>> ELSE <<>>)
         \o compress(Tail(data), Tail(selectors))

\* FieldFilter(keep=keys).row_filter(fields), applied to a row: the values at
\* the kept positions, in field order
row_filter(row, fields, keep) == compress(row, mask(fields, keep))

\* ------------------------------------------------------- distinct, unique
\* a loop body that never records the key it has seen
distinct_body_seen_forgets(seen, row, ks) == seen

\* one pass of distinct's unsorted loop body: the new set and the rows yielded
distinct_body_seen(seen, row, ks) ==
    seen \cup {row_filter(row, StreamFields, ks)}

distinct_body_yield(seen, row, ks) ==
    IF row_filter(row, StreamFields, ks) \notin seen THEN <<row>> ELSE <<>>

\* the whole generator run on a finite stream
RECURSIVE distinct_from(_, _, _)
distinct_from(seen, rows, ks) ==
    IF rows = <<>> THEN <<>>
    ELSE distinct_body_yield(seen, Head(rows), ks)
         \o distinct_from(distinct_body_seen(seen, Head(rows), ks), Tail(rows), ks)

distinct(rows, ks) == distinct_from({}, rows, ks)

\* a loop body that ignores `discard` for the first occurrence of a key
unique_body_yield_first_always(seen, row, ks, disc) ==
    IF row_filter(row, StreamFields, ks) \notin seen THEN <<row>>
    ELSE (IF disc THEN <<row>> ELSE <<>>)

\* one pass of unique's loop body
unique_body_yield(seen, row, ks, disc) ==
    IF row_filter(row, StreamFields, ks) \notin seen
    THEN (IF ~disc THEN <<row>> ELSE <<>>)
    ELSE (IF disc THEN <<row>> ELSE <<>>)

\* ------------------------------------------------------------------ sample
\* islice(iterator, stop) ends once it has delivered `stop` rows
islice_stops(cnt, stop) == cnt >= stop

\* an islice that skips one row too many
islice_passes_off_by_one(cnt, start) == cnt > start

\* islice(iterator, start, None) delivers the rows after the first `start`
islice_passes(cnt, start) == cnt >= start

\* islice(iterator, None, None, step) delivers the rows whose position is a
\* multiple of `step`
islice_step_passes(cnt, step) == cnt % step = 0

\* the exception of `i % value` in discard_nth: `value` is the loop variable,
\* the row enumerate delivered (a list or tuple), not the step
discard_nth_error(i, row) == "TypeError"

\* ------------------------------------------------------------------ select
\* FieldList.indexes on a list of names
indexes(field_names, fields) ==
    [i \in 1..Len(fields) |-> index(field_names, fields[i])]

\* the user's predicate called with positional values
call_predicate(p, vals) ==
    IF p = "is_one" THEN vals[1] = 1 ELSE vals[1] = vals[2]

\* the user's predicate called with a record as keyword arguments
call_predicate_record(p, record) ==
    IF p = "is_one" THEN record.f1 = 1 ELSE record.f1 = record.f2

\* the exception of `predicate(*values, **kwargs)`: ** needs a mapping
select_call_error(kw) == IF kw = "None" THEN "TypeError" ELSE "none"

\* `if kwargs:` in select_records
kwargs_truthy(kw) == kw \notin {"None", "{}"}

\* (flag and not discard) or (not flag and discard)
select_yields(flag, disc) == (flag /\ ~disc) \/ (~flag /\ disc)

\* select_from_set's predicate on a row
from_set_predicate(row, idx, vs, disc) ==
    IF disc THEN row[idx] \notin vs ELSE row[idx] \in vs

\* ------------------------------------------------------------ generators
\* a generator that runs on into the next iteration after a yield
suspends_never(yielded) == FALSE

\* `yield row` hands the row to the consumer and suspends the generator until
\* the consumer's next pull; an iteration that yields nothing goes on
suspends(yielded) == yielded

\* ------------------------------------------------------------ stream spec
StreamInit ==
    /\ op \in {"distinct", "unique", "sample", "select", "select_from_set",
               "select_records"}
    /\ keys \in (IF op \in {"distinct", "unique"} THEN KeyLists ELSE {<<>>})
    /\ discard \in (IF op = "distinct" THEN {FALSE} ELSE BOOLEAN)
    /\ is_sorted \in (IF op = "distinct" THEN BOOLEAN ELSE {FALSE})
    /\ mode \in (IF op = "sample" THEN {"first", "nth"} ELSE {"first"})
    /\ value \in (IF op # "sample" THEN {0}
                  ELSE IF mode = "first" THEN 0..(MaxLen + 1) ELSE Steps)
    /\ predicate \in (IF op \in {"select", "select_records"} THEN Predicates
                      ELSE {"none"})
    /\ arg_fields \in (IF op # "select" THEN {<<>>}
                       ELSE IF predicate = "is_one" THEN {<<"f1">>, <<"f2">>}
                       ELSE {<<"f1", "f2">>})
    /\ set_field \in (IF op = "select_from_set" THEN {"f1", "f2"} ELSE {"none"})
    /\ values \in (IF op = "select_from_set" THEN ValueSets ELSE {{}})
    /\ kwargs \in (IF op \in {"select", "select_records"} THEN {"None", "{}"}
                   ELSE {"None"})
    /\ raised = "none"
    /\ input = <<>>
    /\ exhausted = FALSE
    /\ distinct_values = {}
    /\ count = 0
    /\ out = <<>>
    /\ running = FALSE
    /\ finished = FALSE

\* the consumer asks for the next row
ConsumerNext ==
    /\ ~running /\ ~finished
    /\ running' = TRUE
    /\ UNCHANGED <<op, keys, discard, value, optArgs, raised, input, exhausted, distinct_values,
                   count, out, finished>>
    /\ UNCHANGED notStream

\* the upstream iterator is exhausted: the for loop ends, the generator returns
UpstreamEnds ==
    /\ running
    /\ ~(op = "sample" /\ mode = "first" /\ ~discard /\ islice_stops(count, value))
    /\ exhausted' = TRUE
    /\ finished' = TRUE
    /\ running' = FALSE
    /\ UNCHANGED <<op, keys, discard, value, optArgs, raised, input, distinct_values, count, out>>
    /\ UNCHANGED notStream

\* one iteration of distinct's unsorted loop
DistinctStep ==
    /\ op = "distinct" /\ ~is_sorted /\ running
    /\ Len(input) < MaxLen
    /\ \E row \in Rows :
        /\ input' = Append(input, row)
        /\ distinct_values' = distinct_body_seen(distinct_values, row, keys)
        /\ out' = out \o distinct_body_yield(distinct_values, row, keys)
        /\ running' = ~suspends(distinct_body_yield(distinct_values, row, keys) # <<>>)
    /\ UNCHANGED <<op, keys, discard, value, optArgs, raised, exhausted, count, finished>>
    /\ UNCHANGED notStream

\* the exception of `key_tuple = (row_filter(row))` in distinct's sorted loop:
\* the loop variable is `value`, and `row` is a local name that only the
\* unsorted loop assigns
sorted_key_error == "UnboundLocalError"

\* one iteration of distinct's sorted loop: a row is pulled into `value` and
\* the key expression raises, so the comparison with last_key and the yield
\* are not reached
DistinctSortedStep ==
    /\ op = "distinct" /\ is_sorted /\ running
    /\ Len(input) < MaxLen
    /\ \E v \in Rows : input' = Append(input, v)
    /\ raised' = sorted_key_error
    /\ finished' = TRUE
    /\ running' = FALSE
    /\ UNCHANGED <<op, keys, discard, value, optArgs, exhausted, distinct_values,
                   count, out>>
    /\ UNCHANGED notStream

\* one iteration of unique's loop
UniqueStep ==
    /\ op = "unique" /\ running
    /\ Len(input) < MaxLen
    /\ \E row \in Rows :
        /\ input' = Append(input, row)
        /\ distinct_values' = distinct_body_seen(distinct_values, row, keys)
        /\ out' = out \o unique_body_yield(distinct_values, row, keys, discard)
        /\ running' = ~suspends(unique_body_yield(distinct_values, row, keys, discard) # <<>>)
    /\ UNCHANGED <<op, keys, discard, value, optArgs, raised, exhausted, count, finished>>
    /\ UNCHANGED notStream

\* sample(mode="first", discard=False): islice(iterator, value) has delivered
\* `value` rows and stops without pulling
SampleStop ==
    /\ op = "sample" /\ mode = "first" /\ running /\ ~discard
    /\ islice_stops(count, value)
    /\ finished' = TRUE
    /\ running' = FALSE
    /\ UNCHANGED <<op, keys, discard, value, optArgs, raised, input, exhausted, distinct_values,
                   count, out>>
    /\ UNCHANGED notStream

\* sample(mode="first"): islice pulls one row; islice(iterator, value) yields
\* it, islice(iterator, value, None) skips the first `value` rows
SampleStep ==
    /\ op = "sample" /\ mode = "first" /\ running
    /\ discard \/ ~islice_stops(count, value)
    /\ Len(input) < MaxLen
    /\ \E row \in Rows :
        /\ input' = Append(input, row)
        /\ count' = count + 1
        /\ IF ~discard \/ islice_passes(count, value)
           THEN out' = Append(out, row) /\ running' = FALSE
           ELSE out' = out /\ running' = TRUE
    /\ UNCHANGED <<op, keys, discard, value, optArgs, raised, exhausted, distinct_values, finished>>
    /\ UNCHANGED notStream

\* sample(mode="nth", discard=False): islice(iterator, None, None, value)
\* pulls one row and yields it or skips it
SampleNthStep ==
    /\ op = "sample" /\ mode = "nth" /\ ~discard /\ running
    /\ Len(input) < MaxLen
    /\ \E row \in Rows :
        /\ input' = Append(input, row)
        /\ count' = count + 1
        /\ IF islice_step_passes(count, value)
           THEN out' = Append(out, row) /\ running' = FALSE
           ELSE out' = out /\ running' = TRUE
    /\ UNCHANGED <<op, keys, discard, value, optArgs, raised, exhausted,
                   distinct_values, finished>>
    /\ UNCHANGED notStream

\* sample(mode="nth", discard=True): one iteration of discard_nth's loop; the
\* test raises before anything is yielded
DiscardNthStep ==
    /\ op = "sample" /\ mode = "nth" /\ discard /\ running
    /\ Len(input) < MaxLen
    /\ \E row \in Rows :
        /\ input' = Append(input, row)
        /\ raised' = discard_nth_error(count, row)
    /\ count' = count + 1
    /\ finished' = TRUE
    /\ running' = FALSE
    /\ UNCHANGED <<op, keys, discard, value, optArgs, exhausted, distinct_values, out>>
    /\ UNCHANGED notStream

\* one iteration of select's loop
SelectStep ==
    /\ op = "select" /\ running
    /\ Len(input) < MaxLen
    /\ \E row \in Rows :
        LET vals == [i \in 1..Len(arg_fields) |->
                        row[indexes(StreamFields, arg_fields)[i]]]
            yields == select_yields(call_predicate(predicate, vals), discard)
        IN  /\ input' = Append(input, row)
            /\ raised' = select_call_error(kwargs)
            /\ IF select_call_error(kwargs) # "none"
               THEN out' = out /\ running' = FALSE /\ finished' = TRUE
               ELSE /\ out' = IF yields THEN Append(out, row) ELSE out
                    /\ running' = ~suspends(yields)
                    /\ finished' = finished
    /\ UNCHANGED <<op, keys, discard, value, optArgs, exhausted, distinct_values, count>>
    /\ UNCHANGED notStream

\* ifilter(predicate, iterator) pulls one row for select_from_set
SelectFromSetStep ==
    /\ op = "select_from_set" /\ running
    /\ Len(input) < MaxLen
    /\ \E row \in Rows :
        LET yields == from_set_predicate(row, index(StreamFields, set_field),
                                         values, discard)
        IN  /\ input' = Append(input, row)
            /\ out' = IF yields THEN Append(out, row) ELSE out
            /\ running' = ~yields
    /\ UNCHANGED <<op, keys, discard, value, optArgs, raised, exhausted,
                   distinct_values, count, finished>>
    /\ UNCHANGED notStream

\* one iteration of select_records' loop; kwargs is None or empty, so the
\* record is passed on as it came
SelectRecordsStep ==
    /\ op = "select_records" /\ running /\ ~kwargs_truthy(kwargs)
    /\ Len(input) < MaxLen
    /\ \E record \in Records :
        LET yields == select_yields(call_predicate_record(predicate, record), discard)
        IN  /\ input' = Append(input, record)
            /\ out' = IF yields THEN Append(out, record) ELSE out
            /\ running' = ~suspends(yields)
    /\ UNCHANGED <<op, keys, discard, value, optArgs, raised, exhausted,
                   distinct_values, count, finished>>
    /\ UNCHANGED notStream

StreamNext ==
    \/ ConsumerNext
    \/ UpstreamEnds
    \/ DistinctStep
    \/ DistinctSortedStep
    \/ UniqueStep
    \/ SampleStop
    \/ SampleStep
    \/ SampleNthStep
    \/ DiscardNthStep
    \/ SelectStep
    \/ SelectFromSetStep
    \/ SelectRecordsStep

\* no stream operator is called
StreamIdle ==
    /\ op = "none" /\ keys = <<>> /\ discard = FALSE /\ value = 0
    /\ is_sorted = FALSE /\ mode = "first" /\ predicate = "none"
    /\ arg_fields = <<>> /\ set_field = "none" /\ values = {} /\ kwargs = "None"
    /\ raised = "none"
    /\ input = <<>> /\ exhausted = FALSE /\ distinct_values = {} /\ count = 0
    /\ out = <<>> /\ running = FALSE /\ finished = FALSE

\* ---------------------------------------------------------- FieldList
\* a Python dict as a function on its keys
dict_set(d, k, v) == [x \in DOMAIN d \cup {k} |-> IF x = k THEN v ELSE d[x]]
dict_del(d, k) == [x \in DOMAIN d \ {k} |-> d[x]]
EmptyDict == [x \in {} |-> x]

\* del s[i] on a list
list_del(s, i) == SubSeq(s, 1, i - 1) \o SubSeq(s, i + 1, Len(s))

\* FieldList.__init__ before the fields are appended
EmptyFieldList == [fields |-> <<>>, field_dict |-> EmptyDict, field_names |-> <<>>]

\* append's normalisation of a field spec into a Field
new_field(spec) ==
    IF spec.kind = "Field" THEN spec.field
    ELSE IF spec.kind = "str"
    THEN [name |-> spec.name, storage_type |-> "unknown", analytical_type |-> "typeless"]
    ELSE [name |-> spec.name, storage_type |-> spec.storage_type,
          analytical_type |-> "typeless"]

\* the exception FieldList.append raises for a spec
append_error(fl, spec) ==
    IF spec.kind = "other" THEN "ValueError" ELSE "none"

\* the FieldList after FieldList.append(spec) returned
append_list(fl, spec) ==
    [fields |-> Append(fl.fields, new_field(spec)),
     field_dict |-> dict_set(fl.field_dict, new_field(spec).name, new_field(spec)),
     field_names |-> Append(fl.field_names, new_field(spec).name)]

\* FieldList.names()
names(fl) == fl.field_names

\* FieldList.index(name): the position, 0 where KeyError is raised
fl_index(fl, name) == ListIndex(fl.field_names, name)

\* the exception FieldList.__setitem__ / __delitem__ raises at a position
item_error(fl, i) ==
    IF i \notin 1..Len(fl.fields) THEN "IndexError"
    ELSE IF fl.fields[i].name \notin DOMAIN fl.field_dict THEN "KeyError"
    ELSE "none"

\* the FieldList after FieldList.__setitem__(i, field) returned
setitem_list(fl, i, field) ==
    [fields |-> [fl.fields EXCEPT ![i] = field],
     field_names |-> [fl.field_names EXCEPT ![i] = field.name],
     field_dict |-> dict_set(dict_del(fl.field_dict, fl.fields[i].name),
                             field.name, field)]

\* the FieldList after FieldList.__delitem__(i) returned
delitem_list(fl, i) ==
    [fields |-> list_del(fl.fields, i),
     field_names |-> list_del(fl.field_names, i),
     field_dict |-> dict_del(fl.field_dict, fl.fields[i].name)]

\* FieldList(fields): a new list, every Field appended in turn
RECURSIVE FieldList_from(_, _)
FieldList_from(fl, fields) ==
    IF fields = <<>> THEN fl
    ELSE FieldList_from(append_list(fl, [kind |-> "Field", field |-> Head(fields)]),
                        Tail(fields))

FieldList(fields) == FieldList_from(EmptyFieldList, fields)

\* FieldList.fields(names): all fields when names is empty or None, else
\* the field the name index holds for every name
fl_fields(fl, subset) ==
    IF subset = <<>> THEN fl.fields
    ELSE [k \in 1..Len(subset) |-> fl.field_dict[subset[k]]]

\* the exception FieldList.copy(names) raises
copy_error(fl, subset) ==
    IF \E k \in 1..Len(subset) : subset[k] \notin DOMAIN fl.field_dict
    THEN "KeyError" ELSE "none"

\* a copy that hands back the list itself
copy_object_self(self) == self

\* the object FieldList.copy returns: a FieldList constructed by the call
copy_object(self) == "G"

\* name subsets offered to copy (the empty one stands for None too)
NameLists == {<<>>, <<"a">>, <<"b">>, <<"b", "a">>}

\* the object a program variable refers to
obj(v) == IF v = "F" THEN "F" ELSE gref

FlInit ==
    /\ lists = [o \in {"F", "G"} |-> EmptyFieldList]
    /\ gref = "none"
    /\ fl_error = "none"
    /\ fl_call = "none"

\* v.append(spec)
FlAppend(v, spec) ==
    /\ obj(v) # "none"
    /\ fl_call' = v
    /\ Len(lists[obj(v)].fields) < MaxFields
    /\ fl_error' = append_error(lists[obj(v)], spec)
    /\ lists' = IF append_error(lists[obj(v)], spec) = "none"
                THEN [lists EXCEPT ![obj(v)] = append_list(@, spec)]
                ELSE lists
    /\ UNCHANGED gref
    /\ UNCHANGED notFl

\* v[i] = field
FlSetItem(v, i, field) ==
    /\ obj(v) # "none"
    /\ fl_call' = v
    /\ fl_error' = item_error(lists[obj(v)], i)
    /\ lists' = IF item_error(lists[obj(v)], i) = "none"
                THEN [lists EXCEPT ![obj(v)] = setitem_list(@, i, field)]
                ELSE lists
    /\ UNCHANGED gref
    /\ UNCHANGED notFl

\* del v[i]
FlDelItem(v, i) ==
    /\ obj(v) # "none"
    /\ fl_call' = v
    /\ fl_error' = item_error(lists[obj(v)], i)
    /\ lists' = IF item_error(lists[obj(v)], i) = "none"
                THEN [lists EXCEPT ![obj(v)] = delitem_list(@, i)]
                ELSE lists
    /\ UNCHANGED gref
    /\ UNCHANGED notFl

\* G = F.copy(subset)
FlCopy(subset) ==
    /\ gref = "none"
    /\ fl_call' = "F"
    /\ fl_error' = copy_error(lists["F"], subset)
    /\ IF copy_error(lists["F"], subset) = "none"
       THEN /\ gref' = copy_object("F")
            /\ lists' = [lists EXCEPT ![copy_object("F")] =
                            FieldList(fl_fields(lists["F"], subset))]
       ELSE UNCHANGED <<gref, lists>>
    /\ UNCHANGED notFl

FlNext ==
    \/ \E v \in {"F", "G"}, spec \in FieldSpecs : FlAppend(v, spec)
    \/ \E v \in {"F", "G"}, i \in 1..(MaxFields + 1), field \in Fields : FlSetItem(v, i, field)
    \/ \E v \in {"F", "G"}, i \in 1..(MaxFields + 1) : FlDelItem(v, i)
    \/ \E subset \in NameLists : FlCopy(subset)

\* ------------------------------------------------------------ aggregate
\* a summing function that drops what it has accumulated
agg_sum_overwrites(a, v) == v

\* agg_sum
agg_sum(a, v) == a + v

\* an average that keeps the last value in place of the running sum
agg_average_keeps_last(a, v) == <<a[1] + 1, v>>

\* agg_average
agg_average(a, v) == <<a[1] + 1, a[2] + v>>

\* agg_average_finalize (Python 2 integer division)
agg_average_finalize(a) == a[2] \div a[1]

\* aggregation_functions[function].func, applied
agg_func(function, a, v) ==
    CASE function = "sum" -> agg_sum(a, v)
      [] function = "min" -> (IF v < a THEN v ELSE a)
      [] function = "max" -> (IF v > a THEN v ELSE a)
      [] function = "average" -> agg_average(a, v)

\* accumulators of sum, min and max that start at 1
agg_start_one(function) == IF function = "average" THEN <<0, 0>> ELSE 1

\* aggregation_functions[function].start
agg_start(function) == IF function = "average" THEN <<0, 0>> ELSE 0

\* aggregation_functions[function].finalize, applied where there is one
agg_finalize(function, a) ==
    IF function = "average" THEN agg_average_finalize(a) ELSE a

\* measure_aggregates: (field, index, function) of every measure
measure_aggregates(ms) ==
    [i \in 1..Len(ms) |->
        [field |-> ms[i].field,
         index |-> index(AggFields, ms[i].field),
         function |-> IF ms[i].kind = "str" THEN "sum" ELSE ms[i].function]]

\* key_selectors
key_selectors(kf) == IF kf # <<>> THEN mask(AggFields, kf) ELSE <<>>

\* the accumulators of a key met for the first time
new_key_aggregate(ms, ic) ==
    LET ma == measure_aggregates(ms)
    IN  [i \in 1..Len(ms) |-> agg_start(ma[i].function)]
        \o (IF ic THEN <<0>> ELSE <<>>)

\* the accumulators of a key after one more of its rows
updated_key_aggregate(ka, row, ms, ic) ==
    LET ma == measure_aggregates(ms)
    IN  [i \in 1..Len(ka) |->
            IF i <= Len(ms)
            THEN agg_func(ma[i].function, ka[i], row[ma[i].index])
            ELSE ka[i] + 1]

\* the output row of a key
agg_row(key, ka, ms, ic) ==
    LET ma == measure_aggregates(ms)
    IN  key
        \o [i \in 1..Len(ms) |-> agg_finalize(ma[i].function, ka[i])]
        \o (IF ic THEN <<ka[Len(ka)]>> ELSE <<>>)

\* the body of `for row in iterator`: the dict `aggregates` after one row
agg_step(aggs, row, kf, ms, ic) ==
    LET key == compress(row, key_selectors(kf))
        ka == IF key \in DOMAIN aggs THEN aggs[key] ELSE new_key_aggregate(ms, ic)
    IN  dict_set(aggs, key, updated_key_aggregate(ka, row, ms, ic))

\* the whole loop over a finite stream
RECURSIVE aggregate_from(_, _, _, _, _)
aggregate_from(aggs, rows, kf, ms, ic) ==
    IF rows = <<>> THEN aggs
    ELSE aggregate_from(agg_step(aggs, Head(rows), kf, ms, ic), Tail(rows), kf, ms, ic)

\* the rows the output loop yields, as a set
output_rows(aggs, ms, ic) == {agg_row(key, aggs[key], ms, ic) : key \in DOMAIN aggs}

AggInit ==
    /\ key_fields \in AggKeyLists
    /\ measures \in AggMeasureLists
    /\ include_count \in BOOLEAN
    /\ agg_input = <<>>
    /\ agg_keys = {}
    /\ aggregates = EmptyDict
    /\ agg_pending = {}
    /\ agg_out = <<>>
    /\ agg_pc = "loop"

\* one iteration of `for row in iterator`
AggRow ==
    /\ agg_pc = "loop"
    /\ Len(agg_input) < MaxAggLen
    /\ \E row \in AggRows :
        LET key == compress(row, key_selectors(key_fields))
        IN  /\ agg_input' = Append(agg_input, row)
            /\ agg_keys' = agg_keys \cup {key}
            /\ aggregates' = agg_step(aggregates, row, key_fields, measures,
                                      include_count)
    /\ UNCHANGED <<key_fields, measures, include_count, agg_pending, agg_out, agg_pc>>
    /\ UNCHANGED notAgg

\* the input is exhausted: the output loop starts over the set `keys`
AggInputEnds ==
    /\ agg_pc = "loop"
    /\ agg_pending' = agg_keys
    /\ agg_pc' = IF agg_keys = {} THEN "done" ELSE "emit"
    /\ UNCHANGED <<key_fields, measures, include_count, agg_input, agg_keys,
                   aggregates, agg_out>>
    /\ UNCHANGED notAgg

\* one iteration of `for key in keys`, in the set's iteration order
AggYield ==
    /\ agg_pc = "emit"
    /\ \E key \in agg_pending :
        /\ agg_out' = Append(agg_out,
                agg_row(key, aggregates[key], measures, include_count))
        /\ agg_pending' = agg_pending \ {key}
        /\ agg_pc' = IF agg_pending = {key} THEN "done" ELSE "emit"
    /\ UNCHANGED <<key_fields, measures, include_count, agg_input, agg_keys, aggregates>>
    /\ UNCHANGED notAgg

AggNext ==
    \/ AggRow
    \/ AggInputEnds
    \/ AggYield

\* aggregate is not called
AggIdle ==
    /\ key_fields = <<>> /\ measures = <<>> /\ include_count = FALSE
    /\ agg_input = <<>> /\ agg_keys = {} /\ aggregates = EmptyDict
    /\ agg_pending = {} /\ agg_out = <<>> /\ agg_pc = "idle"

\* ------------------------------------------------------ left_inner_join
\* a join that yields the master row as far as it got when a detail misses
RECURSIVE join_row_keeps_miss(_, _, _, _, _)
join_row_keeps_miss(master_row, ms, js, d, row) ==
    IF d > Len(ms) THEN <<row>>
    ELSE IF master_row[js[d][1]] \in DOMAIN ms[d]
    THEN join_row_keeps_miss(master_row, ms, js, d + 1,
                             row \o ms[d][master_row[js[d][1]]])
    ELSE <<row>>

\* the loop over zip(maps, joins) for one master row, from detail d on: the
\* row yielded, or nothing after a miss
RECURSIVE join_row(_, _, _, _, _)
join_row(master_row, ms, js, d, row) ==
    IF d > Len(ms) THEN <<row>>
    ELSE IF master_row[js[d][1]] \in DOMAIN ms[d]
    THEN join_row(master_row, ms, js, d + 1, row \o ms[d][master_row[js[d][1]]])
    ELSE <<>>

\* argument checks that do not compare the two counts
join_argument_error_no_count(n, js) ==
    IF n = 0 THEN "ArgumentError" ELSE "none"

\* the exception of the argument checks
join_argument_error(n, js) ==
    IF n = 0 THEN "ArgumentError"
    ELSE IF n # Len(js) THEN "ArgumentError"
    ELSE "none"

\* a join that goes on to the master as soon as one detail has been read
after_detail_first_only(k, n) == "master"

\* where the generator goes when detail k of n is exhausted: `for detail, join
\* in zip(details, joins)` takes the next detail, and the loop over master
\* starts after the last
after_detail(k, n) == IF k = n THEN "master" ELSE "details"

JoinInit ==
    /\ n_details \in 0..2
    /\ joins \in UpToTwo(JoinSpecs)
    /\ detail_in = [d \in 1..n_details |-> <<>>]
    /\ detail_dict = EmptyDict
    /\ maps = <<>>
    /\ master_in = <<>>
    /\ join_out = <<>>
    /\ join_error = "none"
    /\ join_pc = "start"

\* the argument checks, run when the consumer first asks for a row
JoinCheck ==
    /\ join_pc = "start"
    /\ join_error' = join_argument_error(n_details, joins)
    /\ join_pc' = IF join_argument_error(n_details, joins) = "none"
                  THEN "details" ELSE "done"
    /\ UNCHANGED <<n_details, joins, detail_in, detail_dict, maps, master_in, join_out>>
    /\ UNCHANGED notJoin

\* dict(...) pulls one row of the detail being read
JoinDetailRow ==
    /\ join_pc = "details"
    /\ Len(detail_in[Len(maps) + 1]) < MaxDetail
    /\ \E row \in DetailRows :
        /\ detail_in' = [detail_in EXCEPT ![Len(maps) + 1] = Append(@, row)]
        /\ detail_dict' = dict_set(detail_dict, row[joins[Len(maps) + 1][2]], row)
    /\ UNCHANGED <<n_details, joins, maps, master_in, join_out, join_error, join_pc>>
    /\ UNCHANGED notJoin

\* the detail being read is exhausted: maps.append(detail_dict)
JoinDetailEnds ==
    /\ join_pc = "details"
    /\ maps' = Append(maps, detail_dict)
    /\ detail_dict' = EmptyDict
    /\ join_pc' = after_detail(Len(maps) + 1, n_details)
    /\ UNCHANGED <<n_details, joins, detail_in, master_in, join_out, join_error>>
    /\ UNCHANGED notJoin

\* one iteration of `for master_row in master`
JoinMasterRow ==
    /\ join_pc = "master"
    /\ Len(master_in) < MaxMaster
    /\ \E master_row \in MasterRows :
        /\ master_in' = Append(master_in, master_row)
        /\ join_out' = join_out \o join_row(master_row, maps, joins, 1, master_row)
    /\ UNCHANGED <<n_details, joins, detail_in, detail_dict, maps, join_error, join_pc>>
    /\ UNCHANGED notJoin

\* the master stream is exhausted
JoinMasterEnds ==
    /\ join_pc = "master"
    /\ join_pc' = "done"
    /\ UNCHANGED <<n_details, joins, detail_in, detail_dict, maps, master_in,
                   join_out, join_error>>
    /\ UNCHANGED notJoin

JoinNext ==
    \/ JoinCheck
    \/ JoinDetailRow
    \/ JoinDetailEnds
    \/ JoinMasterRow
    \/ JoinMasterEnds

\* left_inner_join is not called
JoinIdle ==
    /\ n_details = 0 /\ joins = <<>> /\ detail_in = <<>> /\ detail_dict = EmptyDict
    /\ maps = <<>> /\ master_in = <<>> /\ join_out = <<>>
    /\ join_error = "none" /\ join_pc = "idle"

\* ------------------------------------------------------ transformations
\* the Transformation object compile_transformation builds for an entry;
\* source_index is Python's 0-based position
transformation_object(e) ==
    [class |-> e.action,
     source_index |-> IF e.action = "set" THEN 0 ELSE index(TransFields, e.source) - 1,
     arg |-> e.arg,
     missing_value |-> e.missing_value]

\* out[target] = trans on an OrderedDict kept as a list of (key, value): a new
\* key goes to the end, a known key keeps its place and takes the new value
ordered_dict_set(od, k, v) ==
    IF \E i \in 1..Len(od) : od[i].key = k
    THEN [i \in 1..Len(od) |-> IF od[i].key = k THEN [key |-> k, value |-> v] ELSE od[i]]
    ELSE Append(od, [key |-> k, value |-> v])

\* compile_transformation's loop over the entries
RECURSIVE compile_from(_, _)
compile_from(od, ts) ==
    IF ts = <<>> THEN od
    ELSE compile_from(ordered_dict_set(od, Head(ts).target, transformation_object(Head(ts))),
                      Tail(ts))

\* out.values(), the list bound into the mapper
compile_transformation(ts) ==
    [i \in 1..Len(compile_from(<<>>, ts)) |-> compile_from(<<>>, ts)[i].value]

\* `if self.source_index:` in FunctionTransformation.__call__
source_index_truthy(i) == i # 0

\* the exception a Transformation object raises on a row: with a falsy
\* source_index FunctionTransformation runs compress(row, self.mask), and
\* self.mask is None for a single source field
trans_error(t, row) ==
    IF t.class = "function" /\ ~source_index_truthy(t.source_index)
    THEN "TypeError" ELSE "none"

\* the value a Transformation object returns for a row
trans_value(t, row) ==
    LET v == row[t.source_index + 1]
    IN  CASE t.class = "copy" -> (IF v # "None" THEN v ELSE t.missing_value)
          [] t.class = "set" -> t.arg
          [] t.class = "map" -> (IF v \in DOMAIN TransMap THEN TransMap[v]
                                 ELSE t.missing_value)
          [] t.class = "function" ->
                (IF apply_function(t.arg, v) # "None" THEN apply_function(t.arg, v)
                 ELSE t.missing_value)

\* transform(transformations, row)
transform(ts, row) ==
    IF \E i \in 1..Len(ts) : trans_error(ts[i], row) # "none"
    THEN [error |-> "TypeError", row |-> <<>>]
    ELSE [error |-> "none", row |-> [i \in 1..Len(ts) |-> trans_value(ts[i], row)]]

TransInit ==
    /\ transformation \in ListsUpTo(TransEntries, MaxRules)
    /\ compiled = <<>>
    /\ t_row = <<>>
    /\ t_result = [error |-> "none", row |-> <<>>]
    /\ t_pc = "start"

\* mapper = compile_transformation(transformation, fields)
TransCompile ==
    /\ t_pc = "start"
    /\ compiled' = compile_transformation(transformation)
    /\ t_pc' = "compiled"
    /\ UNCHANGED <<transformation, t_row, t_result>>
    /\ UNCHANGED notTrans

\* mapper(row)
TransApply ==
    /\ t_pc = "compiled"
    /\ \E row \in TransRows :
        /\ t_row' = row
        /\ t_result' = transform(compiled, row)
    /\ t_pc' = "done"
    /\ UNCHANGED <<transformation, compiled>>
    /\ UNCHANGED notTrans

TransNext ==
    \/ TransCompile
    \/ TransApply

\* no transformation is compiled
TransIdle ==
    /\ transformation = <<>> /\ compiled = <<>> /\ t_row = <<>>
    /\ t_result = [error |-> "none", row |-> <<>>] /\ t_pc = "idle"

\* --------------------------------------------------------------- FieldMap
\* whether the name `copy` is bound where FieldMap.map runs: fields.py
\* imports no module, so copy.copy(field) raises NameError
copy_bound == FALSE

\* FieldMap.map's loop over the fields, output_fields being built
RECURSIVE map_from(_, _, _, _)
map_from(output_fields, fields, rename, drop) ==
    IF fields = <<>> THEN [error |-> "none", list |-> output_fields]
    ELSE LET field == Head(fields)
             renamed == [field EXCEPT !.name = rename[field.name]]
         IN  IF field.name \in DOMAIN rename /\ ~copy_bound
             THEN [error |-> "NameError", list |-> EmptyFieldList]
             ELSE map_from(
                    IF field.name \notin drop
                    THEN append_list(output_fields,
                            [kind |-> "Field",
                             field |-> IF field.name \in DOMAIN rename
                                       THEN renamed ELSE field])
                    ELSE output_fields,
                    Tail(fields), rename, drop)

\* FieldMap.map(fields)
FieldMap_map(fields, rename, drop) == map_from(EmptyFieldList, fields, rename, drop)

FmInit ==
    /\ fm_fields \in ListsUpTo(Fields, MaxFields)
    /\ fm_rename \in RenameMaps
    /\ fm_drop \in DropSets
    /\ fm_result = [error |-> "none", list |-> EmptyFieldList]
    /\ fm_pc = "start"
    /\ node_result = EmptyFieldList
    /\ node_pc = "start"
    /\ run_record = EmptyDict
    /\ run_pushed = EmptyDict
    /\ run_pc = "start"

\* FieldMap(rename, drop).map(fields)
FmMap ==
    /\ fm_pc = "start"
    /\ fm_result' = FieldMap_map(fm_fields, fm_rename, fm_drop)
    /\ fm_pc' = "done"
    /\ UNCHANGED <<fm_fields, fm_rename, fm_drop, node_result, node_pc,
                   run_record, run_pushed, run_pc>>
    /\ UNCHANGED notFm

\* FieldMapNode.output_fields' loop over the input fields; field_nodes.py
\* imports copy
RECURSIVE output_fields_from(_, _, _, _)
output_fields_from(output_fields, fields, mapped_fields, dropped_fields) ==
    IF fields = <<>> THEN output_fields
    ELSE LET field == Head(fields)
         IN  output_fields_from(
                IF field.name \in DOMAIN mapped_fields
                THEN append_list(output_fields,
                        [kind |-> "Field",
                         field |-> [field EXCEPT !.name = mapped_fields[field.name]]])
                ELSE IF field.name \notin dropped_fields
                THEN append_list(output_fields, [kind |-> "Field", field |-> field])
                ELSE output_fields,
                Tail(fields), mapped_fields, dropped_fields)

\* FieldMapNode(map_fields, drop_fields).output_fields over the input's fields
output_fields(fields, mapped_fields, dropped_fields) ==
    output_fields_from(EmptyFieldList, fields, mapped_fields, dropped_fields)

\* node.output_fields of a FieldMapNode with the same rename mapping and drop
\* set, fed the same FieldList
FmNodeOutputFields ==
    /\ node_pc = "start"
    /\ node_result' = output_fields(fm_fields, fm_rename, fm_drop)
    /\ node_pc' = "done"
    /\ UNCHANGED <<fm_fields, fm_rename, fm_drop, fm_result, fm_pc,
                   run_record, run_pushed, run_pc>>
    /\ UNCHANGED notFm

\* a record of the node's input, as as_records builds it: dict(zip(names, row))
\* for the row whose values are their positions (a repeated name keeps the
\* last value)
upstream_record(fields) ==
    [n \in {fields[i].name : i \in 1..Len(fields)} |->
        CHOOSE i \in 1..Len(fields) :
            fields[i].name = n /\ \A j \in (i + 1)..Len(fields) : fields[j].name # n]

\* the orders in which a dict's keys can be iterated
KeyOrders(d) ==
    {q \in [1..Cardinality(DOMAIN d) -> DOMAIN d] :
        \A i, j \in 1..Cardinality(DOMAIN d) : i # j => q[i] # q[j]}

\* run's loop over mapped_field_names, in the order the keys come: a key that
\* is in the record is deleted and its value stored under the new name
RECURSIVE rename_record(_, _, _)
rename_record(record, order, mapped_fields) ==
    IF order = <<>> THEN record
    ELSE rename_record(
            IF Head(order) \in DOMAIN record
            THEN dict_set(dict_del(record, Head(order)),
                          mapped_fields[Head(order)], record[Head(order)])
            ELSE record,
            Tail(order), mapped_fields)

\* run's loop over dropped_fields
drop_record(record, dropped_fields) ==
    [k \in DOMAIN record \ dropped_fields |-> record[k]]

\* FieldMapNode.run for one record of the input, up to put_record(record)
FmNodeRun ==
    /\ run_pc = "start"
    /\ run_record' = upstream_record(fm_fields)
    /\ \E order \in KeyOrders(fm_rename) :
          run_pushed' = drop_record(
                            rename_record(upstream_record(fm_fields), order, fm_rename),
                            fm_drop)
    /\ run_pc' = "done"
    /\ UNCHANGED <<fm_fields, fm_rename, fm_drop, fm_result, fm_pc,
                   node_result, node_pc>>
    /\ UNCHANGED notFm

FmNext ==
    \/ FmMap
    \/ FmNodeOutputFields
    \/ FmNodeRun

\* FieldMap.map is not called
FmIdle ==
    /\ fm_fields = <<>> /\ fm_rename = EmptyDict /\ fm_drop = {}
    /\ fm_result = [error |-> "none", list |-> EmptyFieldList] /\ fm_pc = "idle"
    /\ node_result = EmptyFieldList /\ node_pc = "idle"
    /\ run_record = EmptyDict /\ run_pushed = EmptyDict /\ run_pc = "idle"

\* ---------------------------------------------------------------- to_dict
\* dict key of a row for a single-field key: row[index], index 0 without key
dict_index(k) == IF k.kind = "None" THEN 1 ELSE index(StreamFields, k.names[1])

\* `indexes is None`: the branch that builds d with dict(...)
indexes_is_None(k) == k.kind \in {"None", "str"}

TdInit ==
    /\ td_key \in DictKeys
    /\ td_input = <<>>
    /\ td_d = EmptyDict
    /\ td_error = "none"
    /\ td_pc = "loop"

\* one row pulled by the generator expression inside dict(...)
TdRow ==
    /\ td_pc = "loop" /\ indexes_is_None(td_key)
    /\ Len(td_input) < MaxDictLen
    /\ \E row \in Rows :
        /\ td_input' = Append(td_input, row)
        /\ td_d' = dict_set(td_d, row[dict_index(td_key)], row)
    /\ UNCHANGED <<td_key, td_error, td_pc>>
    /\ UNCHANGED notTd

\* the first iteration of the loop for a list of key fields: `d[key_value] =
\* row` assigns into the local d, which this branch never binds
TdCompositeRow ==
    /\ td_pc = "loop" /\ ~indexes_is_None(td_key)
    /\ \E row \in Rows : td_input' = Append(td_input, row)
    /\ td_error' = "UnboundLocalError"
    /\ td_pc' = "done"
    /\ UNCHANGED <<td_key, td_d>>
    /\ UNCHANGED notTd

\* the iterator is exhausted: `return d`
TdReturn ==
    /\ td_pc = "loop"
    /\ td_error' = IF indexes_is_None(td_key) THEN "none" ELSE "UnboundLocalError"
    /\ td_pc' = "done"
    /\ UNCHANGED <<td_key, td_input, td_d>>
    /\ UNCHANGED notTd

TdNext ==
    \/ TdRow
    \/ TdCompositeRow
    \/ TdReturn

\* to_dict is not called
TdIdle ==
    /\ td_key = [kind |-> "None", names |-> <<>>] /\ td_input = <<>>
    /\ td_d = EmptyDict /\ td_error = "none" /\ td_pc = "idle"

\* ------------------------------------------------------- specifications
\* no FieldList is constructed
FlIdle ==
    /\ lists = [o \in {"F", "G"} |-> EmptyFieldList]
    /\ gref = "none" /\ fl_error = "none" /\ fl_call = "none"

\* a stream operator is called
InitStream == StreamInit /\ FlIdle /\ AggIdle /\ JoinIdle /\ TransIdle /\ FmIdle /\ TdIdle

SpecStream == InitStream /\ [][StreamNext]_vars

\* a FieldList is constructed
InitFieldList == FlInit /\ StreamIdle /\ AggIdle /\ JoinIdle /\ TransIdle /\ FmIdle /\ TdIdle

SpecFieldList == InitFieldList /\ [][FlNext]_vars

\* aggregate is called
InitAggregate == AggInit /\ StreamIdle /\ FlIdle /\ JoinIdle /\ TransIdle /\ FmIdle /\ TdIdle

SpecAggregate == InitAggregate /\ [][AggNext]_vars

\* left_inner_join is called
InitJoin == JoinInit /\ StreamIdle /\ FlIdle /\ AggIdle /\ TransIdle /\ FmIdle /\ TdIdle

SpecJoin == InitJoin /\ [][JoinNext]_vars

\* a materializing operator is called: left_inner_join or aggregate
InitMaterializing == InitJoin \/ InitAggregate

MaterializingNext ==
    \/ JoinNext
    \/ AggNext

SpecMaterializing == InitMaterializing /\ [][MaterializingNext]_vars

\* a transformation is given to compile_transformation
InitTransform == TransInit /\ StreamIdle /\ FlIdle /\ AggIdle /\ JoinIdle /\ FmIdle /\ TdIdle

SpecTransform == InitTransform /\ [][TransNext]_vars

\* a FieldMap is given a FieldList
InitFieldMap == FmInit /\ StreamIdle /\ FlIdle /\ AggIdle /\ JoinIdle /\ TransIdle /\ TdIdle

SpecFieldMap == InitFieldMap /\ [][FmNext]_vars

\* to_dict is called
InitToDict ==
    TdInit /\ StreamIdle /\ FlIdle /\ AggIdle /\ JoinIdle /\ TransIdle /\ FmIdle

SpecToDict == InitToDict /\ [][TdNext]_vars

\* ------------------------------------------------- properties of streams
Min(a, b) == IF a < b THEN a ELSE b

\* the key of a row: the value of each key field
KeyAt(row, ks) == [f \in Range(ks) |-> row[index(StreamFields, f)]]

\* positions of the rows that are the first of their key
FirstIdx(s, ks) ==
    {i \in 1..Len(s) : \A j \in 1..(i-1) : KeyAt(s[j], ks) # KeyAt(s[i], ks)}

\* the rows of s at the positions in I, in order
RECURSIVE PickFrom(_, _, _)
PickFrom(s, I, i) ==
    IF i > Len(s) THEN <<>>
    ELSE (IF i \in I THEN <<s[i]>> ELSE <<>>) \o PickFrom(s, I, i + 1)

Pick(s, I) == PickFrom(s, I, 1)

\* C4: unsorted distinct yields exactly the first input row of every key, in
\* input order, and distinct applied to its own output returns that output.
C4_DistinctFirstRows ==
    (op = "distinct" /\ ~is_sorted) =>
        /\ out = Pick(input, FirstIdx(input, keys))
        /\ distinct(out, keys) = out

\* a finished distinct run that dropped a repeated key and kept two rows
C4_Witness ==
    /\ op = "distinct" /\ ~is_sorted /\ finished
    /\ Len(out) >= 2 /\ Len(out) < Len(input)

\* C5: on the same input, unique with discard=false yields the first
\* occurrence of every key and unique with discard=true yields every other
\* occurrence, each in input order, so the two outputs partition the input.
C5_UniquePartition ==
    op = "unique" =>
        /\ ~discard => out = Pick(input, FirstIdx(input, keys))
        /\ discard => out = Pick(input, (1..Len(input)) \ FirstIdx(input, keys))

\* a finished unique(discard=true) run that yielded some but not all rows
C5_Witness ==
    /\ op = "unique" /\ finished /\ discard
    /\ Len(out) >= 2 /\ Len(out) < Len(input)

\* C6: sample in mode first yields the first min(value, L) rows of a stream
\* of L rows without discard, and the remaining rows with discard.
C6_SampleFirst ==
    (op = "sample" /\ mode = "first" /\ finished) =>
        /\ ~discard =>
            /\ out = SubSeq(input, 1, Min(value, Len(input)))
            /\ Len(input) <= value
            /\ ~exhausted => Len(out) = value
        /\ discard =>
            /\ exhausted
            /\ out = SubSeq(input, Min(value, Len(input)) + 1, Len(input))

\* a finished sample(discard=true) run that skipped two rows and yielded two
C6_Witness ==
    /\ op = "sample" /\ mode = "first" /\ finished /\ discard
    /\ value = 2 /\ Len(out) = 2

\* a finished sample(discard=false) run cut short of the stream's end
C6_WitnessKeep ==
    /\ op = "sample" /\ mode = "first" /\ finished /\ ~discard /\ ~exhausted
    /\ value = 3 /\ Len(out) = 3

\* positions of the rows at the Python positions 0, v, 2v, ...
NthIdx(s, v) == {i \in 1..Len(s) : (i - 1) % v = 0}

\* C14: sample in mode nth with step v >= 1 yields the rows at positions 0, v,
\* 2v, ... without discard and the rows at all other positions with discard,
\* each in input order.
C14_SampleNth ==
    (op = "sample" /\ mode = "nth") =>
        /\ raised = "none"
        /\ ~discard => out = Pick(input, NthIdx(input, value))
        /\ discard => out = Pick(input, (1..Len(input)) \ NthIdx(input, value))

\* the part of C14 without discard
C14_KeepPart ==
    (op = "sample" /\ mode = "nth" /\ ~discard) =>
        /\ raised = "none"
        /\ out = Pick(input, NthIdx(input, value))

\* whether the predicate (or the membership in the value set) holds for a row
Holds(row) ==
    CASE op = "select" ->
            call_predicate(predicate,
                [i \in 1..Len(arg_fields) |-> row[index(StreamFields, arg_fields[i])]])
      [] op = "select_from_set" -> row[index(StreamFields, set_field)] \in values
      [] op = "select_records" -> call_predicate_record(predicate, row)

\* positions of the rows for which it holds
HoldIdx(s) == {i \in 1..Len(s) : Holds(s[i])}

\* C16: select, select_from_set and select_records, called with the default
\* kwargs, raise nothing and yield the rows for which the predicate holds
\* without discard, the rows for which it does not hold with discard, each in
\* input order.
C16_SelectPartition ==
    (op \in {"select", "select_from_set", "select_records"} /\ kwargs = "None") =>
        /\ raised = "none"
        /\ ~discard => out = Pick(input, HoldIdx(input))
        /\ discard => out = Pick(input, (1..Len(input)) \ HoldIdx(input))

\* the part of C16 for select_from_set and select_records
C16_FromSetAndRecordsPart ==
    (op \in {"select_from_set", "select_records"} /\ kwargs = "None") =>
        /\ raised = "none"
        /\ ~discard => out = Pick(input, HoldIdx(input))
        /\ discard => out = Pick(input, (1..Len(input)) \ HoldIdx(input))

\* select given an empty dict as kwargs
C16_SelectWithKwargsPart ==
    (op = "select" /\ kwargs = "{}") =>
        /\ raised = "none"
        /\ ~discard => out = Pick(input, HoldIdx(input))
        /\ discard => out = Pick(input, (1..Len(input)) \ HoldIdx(input))

\* the operators C19 is about
LazyOp == (op = "distinct" /\ ~is_sorted) \/ op = "unique" \/ op = "select"

\* positions of the rows the operator emits
EmitIdx(s) ==
    CASE op = "distinct" -> FirstIdx(s, keys)
      [] op = "unique" -> (IF discard THEN (1..Len(s)) \ FirstIdx(s, keys)
                          ELSE FirstIdx(s, keys))
      [] op = "select" -> (IF discard THEN (1..Len(s)) \ HoldIdx(s) ELSE HoldIdx(s))

\* between two pulls of the consumer, before the operator has ended: nothing
\* was pulled before the first pull, and after k outputs the last row pulled
\* is the one that produced the k-th output
LazyBetweenPulls ==
    (LazyOp /\ ~running /\ ~finished) =>
        /\ Len(out) = Cardinality(EmitIdx(input))
        /\ input = <<>> \/ Len(input) \in EmitIdx(input)

\* a step pulls at most one row, only inside a pull of the consumer, and a
\* step that emits a row is the last step of that pull and pulled that row
LazyStep ==
    LazyOp =>
        /\ input' # input =>
              (running /\ Len(input') = Len(input) + 1
               /\ SubSeq(input', 1, Len(input)) = input)
        /\ out' # out =>
              (~running' /\ input' # input
               /\ out' = Append(out, input'[Len(input')]))

\* C19: unsorted distinct, unique and select are lazy: a pull of the consumer
\* pulls upstream rows one by one up to and including the first row emitted
\* (or to the upstream's end), and when the consumer stops after k outputs no
\* row beyond the one that produced the k-th output has been pulled.
C19_Lazy == [](LazyBetweenPulls) /\ [][LazyStep]_vars

\* the consumer has two rows from distinct, the second produced by the third
\* upstream row, and has not pulled again
C19_Witness ==
    /\ op = "distinct" /\ ~is_sorted /\ ~running /\ ~finished
    /\ Len(out) = 2 /\ Len(input) = 3

\* the consumer has one row from select, produced by the third upstream row
C19_WitnessSelect ==
    /\ op = "select" /\ ~running /\ ~finished
    /\ Len(out) = 1 /\ Len(input) = 3

\* rows with equal keys are adjacent
Adjacent(s, ks) ==
    \A i, j \in 1..Len(s) :
        (i < j /\ KeyAt(s[i], ks) = KeyAt(s[j], ks))
        => \A k \in i..j : KeyAt(s[k], ks) = KeyAt(s[i], ks)

\* C13: on an input whose rows with equal keys are adjacent, distinct with
\* is_sorted=true raises nothing and yields what unsorted distinct yields: the
\* first row of every run of equal keys.
C13_SortedAsUnsorted ==
    (op = "distinct" /\ is_sorted /\ Adjacent(input, keys)) =>
        /\ raised = "none"
        /\ out = distinct(input, keys)

\* ---------------------------------------------- properties of FieldList
\* C7: in every FieldList, index(names()[i]) = i at every valid position i.
C7_IndexOfName ==
    \A o \in {"F", "G"} :
        \A i \in 1..Len(names(lists[o])) :
            fl_index(lists[o], names(lists[o])[i]) = i

\* C8: appending a field spec whose name is already a field name of F fails
\* with DuplicateFieldError and leaves F as it was.
C8_AppendDuplicateFails ==
    [][\A spec \in FieldSpecs :
         (/\ spec.kind # "other"
          /\ new_field(spec).name \in Range(lists["F"].field_names)
          /\ FlAppend("F", spec))
         => (fl_error' = "DuplicateFieldError" /\ lists'["F"] = lists["F"])]_vars

\* C9: after G = F.copy(...), append / set / delete on G leave F's field
\* sequence, name sequence and name index unchanged, and those on F leave G's.
C9_CopyIndependent ==
    [][gref # "none" =>
        /\ fl_call' = "G" => lists'["F"] = lists["F"]
        /\ fl_call' = "F" => lists'[gref] = lists[gref]]_vars

\* G was copied from a non-empty F and one of the two was changed since: G
\* holds a field that F does not
C9_Witness ==
    /\ gref = "G"
    /\ lists["F"].fields # <<>>
    /\ \E i \in 1..Len(lists["G"].fields) :
          lists["G"].fields[i] \notin Range(lists["F"].fields)

\* C17: in every FieldList the three views agree: the name sequence holds the
\* name of the field at every position, and the name index has exactly the
\* names of the fields in the list, each mapped to a field of the list that
\* bears the name.
C17_ViewsAgree ==
    \A o \in {"F", "G"} :
        LET fl == lists[o]
        IN  /\ Len(fl.field_names) = Len(fl.fields)
            /\ \A i \in 1..Len(fl.fields) : fl.field_names[i] = fl.fields[i].name
            /\ DOMAIN fl.field_dict = {fl.fields[i].name : i \in 1..Len(fl.fields)}
            /\ \A n \in DOMAIN fl.field_dict :
                  /\ fl.field_dict[n].name = n
                  /\ fl.field_dict[n] \in Range(fl.fields)

\* ---------------------------------------------- properties of aggregate
\* the values of one field over a stream
Column(s, field) == {s[i][index(AggFields, field)] : i \in 1..Len(s)}

\* the sum and the number of the rows of s whose field kf holds k
RECURSIVE SumWhere(_, _, _, _)
SumWhere(s, kf, k, mf) ==
    IF s = <<>> THEN 0
    ELSE (IF Head(s)[index(AggFields, kf)] = k
          THEN Head(s)[index(AggFields, mf)] ELSE 0)
         + SumWhere(Tail(s), kf, k, mf)

CountWhere(s, kf, k) ==
    Cardinality({i \in 1..Len(s) : s[i][index(AggFields, kf)] = k})

\* C1: with one key field, one summed measure and include_count, aggregate
\* yields one row per key value of the input: the key, the sum of the measure
\* over the key's rows, the number of the key's rows.
C1_AggregateSumCount ==
    (/\ agg_pc = "done" /\ include_count
     /\ Len(key_fields) = 1 /\ Len(measures) = 1
     /\ measure_aggregates(measures)[1].function = "sum")
    => LET kf == key_fields[1]
           mf == measures[1].field
       IN  /\ Range(agg_out) =
                {<<k, SumWhere(agg_input, kf, k, mf), CountWhere(agg_input, kf, k)>> :
                    k \in Column(agg_input, kf)}
           /\ Len(agg_out) = Cardinality(Column(agg_input, kf))

\* three rows in two regions were summed and counted, as in the spec's example
C1_Witness ==
    /\ agg_pc = "done" /\ include_count
    /\ key_fields = <<"region">>
    /\ measures = <<[kind |-> "tuple", field |-> "amount", function |-> "sum"]>>
    /\ Len(agg_input) = 3
    /\ Range(agg_out) = {<<1, 3, 2>>, <<2, 0 - 1, 1>>}

\* the values of measure i over the rows of s in the group of an output row
GroupValues(s, out_row, i) ==
    {s[j][measure_aggregates(measures)[i].index] :
        j \in {k \in 1..Len(s) :
                  compress(s[k], key_selectors(key_fields))
                  = SubSeq(out_row, 1, Len(key_fields))}}

\* the smallest and the largest element of a set of integers
SetMin(S) == CHOOSE x \in S : \A y \in S : x <= y
SetMax(S) == CHOOSE x \in S : \A y \in S : y <= x

\* C21: the value aggregate reports for a min measure is the smallest of 0
\* and the group's measure values, and for a max measure the largest of 0 and
\* the group's measure values.
C21_MinMaxFromZero ==
    agg_pc = "done" =>
        \A r \in 1..Len(agg_out) : \A i \in 1..Len(measures) :
            LET function == measure_aggregates(measures)[i].function
                reported == agg_out[r][Len(key_fields) + i]
                group == GroupValues(agg_input, agg_out[r], i)
            IN  /\ function = "min" => reported = SetMin(group \cup {0})
                /\ function = "max" => reported = SetMax(group \cup {0})

\* min over a group whose amounts are 1 and 2 reported 0
C21_Witness ==
    /\ agg_pc = "done" /\ key_fields = <<"region">>
    /\ measures = <<[kind |-> "tuple", field |-> "amount", function |-> "min"]>>
    /\ \E r \in 1..Len(agg_out) :
          /\ GroupValues(agg_input, agg_out[r], 1) = {1, 2}
          /\ agg_out[r][2] = 0

\* max over a group whose only amount is -1 reported 0
C21_WitnessMax ==
    /\ agg_pc = "done" /\ key_fields = <<"region">>
    /\ measures = <<[kind |-> "tuple", field |-> "amount", function |-> "max"]>>
    /\ \E r \in 1..Len(agg_out) :
          /\ GroupValues(agg_input, agg_out[r], 1) = {0 - 1}
          /\ agg_out[r][2] = 0

\* rows ordered by region, then by amount
RowLeq(a, b) == a[1] < b[1] \/ (a[1] = b[1] /\ a[2] <= b[2])

\* a row put into an ordered stream at its place
RECURSIVE Insert(_, _)
Insert(row, s) ==
    IF s = <<>> THEN <<row>>
    ELSE IF RowLeq(row, Head(s)) THEN <<row>> \o s
    ELSE <<Head(s)>> \o Insert(row, Tail(s))

\* the ordered permutation of a stream: two streams are permutations of each
\* other exactly when they have the same one
RECURSIVE Sorted(_)
Sorted(s) == IF s = <<>> THEN <<>> ELSE Insert(Head(s), Sorted(Tail(s)))

\* what aggregate yields for a stream, as a set of rows
AggregateRows(rows) ==
    output_rows(aggregate_from(EmptyDict, rows, key_fields, measures, include_count),
                measures, include_count)

MatchIdx(m, d) ==
    {i \in 1..Len(detail_in[d]) : detail_in[d][i][joins[d][2]] = m[joins[d][1]]}

Max(S) == CHOOSE x \in S : \A y \in S : y <= x

\* the master row followed by the last matching row of the details d..n
RECURSIVE Joined(_, _)
Joined(m, d) ==
    IF d > n_details THEN <<>>
    ELSE detail_in[d][Max(MatchIdx(m, d))] \o Joined(m, d + 1)

\* what an inner join over all details yields for the master rows ms
RECURSIVE InnerJoin(_)
InnerJoin(ms) ==
    IF ms = <<>> THEN <<>>
    ELSE (IF \A d \in 1..n_details : MatchIdx(Head(ms), d) # {}
          THEN <<Head(ms) \o Joined(Head(ms), 1)>> ELSE <<>>)
         \o InnerJoin(Tail(ms))

\* C2: left_inner_join yields, in master order, the master rows that have a
\* row with their key in every detail, each followed by the last such row of
\* every detail in detail order; a master row with a miss is left out.
C2_InnerJoin ==
    join_pc \in {"master", "done"} /\ join_error = "none"
    => join_out = InnerJoin(master_in)

\* two details, one with a repeated key; one master row joined, one left out
C2_Witness ==
    /\ join_pc = "done" /\ n_details = 2
    /\ Len(master_in) = 2 /\ Len(join_out) = 1
    /\ \E d \in 1..2 : \E i, j \in 1..Len(detail_in[d]) :
          i < j /\ MatchIdx(join_out[1], d) = {i, j}

\* C12: with no details, or with a number of details different from the
\* number of join specs, left_inner_join fails with ArgumentError; it yields
\* no row and pulls no row from the master or from any detail.
C12_JoinArgumentError ==
    (n_details = 0 \/ n_details # Len(joins)) =>
        /\ join_pc \in {"start", "done"}
        /\ join_pc = "done" => join_error = "ArgumentError"
        /\ join_out = <<>>
        /\ master_in = <<>>
        /\ \A d \in 1..n_details : detail_in[d] = <<>>

\* two details were given with one join spec and the call has failed
C12_Witness ==
    /\ join_pc = "done" /\ join_error = "ArgumentError"
    /\ n_details = 2 /\ Len(joins) = 1

\* no details were given with one join spec and the call has failed
C12_WitnessNoDetails ==
    /\ join_pc = "done" /\ join_error = "ArgumentError"
    /\ n_details = 0 /\ Len(joins) = 1

\* C18: left_inner_join pulls no master row and yields no row while a detail
\* is still being read, and has read every detail to its end when it does;
\* aggregate yields no row while it is still reading its input.
C18_DrainBeforeOutput ==
    /\ join_pc = "details" => (master_in = <<>> /\ join_out = <<>>)
    /\ (master_in # <<>> \/ join_out # <<>>) =>
          (join_pc \in {"master", "done"} /\ Len(maps) = n_details)
    /\ agg_pc = "loop" => agg_out = <<>>
    /\ agg_out # <<>> => agg_pc \in {"emit", "done"}

\* two details were read, each with rows, and a master row was joined
C18_Witness ==
    /\ join_pc = "master" /\ n_details = 2
    /\ \A d \in 1..2 : detail_in[d] # <<>>
    /\ master_in # <<>> /\ join_out # <<>>

\* aggregate read three rows to the end and has yielded a row
C18_WitnessAggregate ==
    /\ agg_pc \in {"emit", "done"}
    /\ Len(agg_input) = 3 /\ agg_out # <<>>

\* ------------------------------------------ properties of transformations
\* the value an entry's rule computes for a row
RuleValue(e, row) ==
    LET v == row[index(TransFields, e.source)]
    IN  CASE e.action = "copy" -> (IF v # "None" THEN v ELSE e.missing_value)
          [] e.action = "set" -> e.arg
          [] e.action = "map" -> (IF v = "x" THEN "y" ELSE e.missing_value)
          [] e.action = "function" ->
                (IF apply_function(e.arg, v) # "None" THEN apply_function(e.arg, v)
                 ELSE e.missing_value)

\* C3: the mapper compiled from n entries returns, for any row, n values, the
\* k-th computed by the k-th entry's rule, also when entries share a target
\* or a source field.
C3_OneValuePerEntry ==
    t_pc = "done" =>
        /\ t_result.error = "none"
        /\ Len(t_result.row) = Len(transformation)
        /\ \A k \in 1..Len(t_result.row) :
              t_result.row[k] = RuleValue(transformation[k], t_row)

\* C20: a function rule with one source field returns function(the row's
\* value of that field), or missing_value when that is None, wherever the
\* field stands in the FieldList, position 0 included.
C20_FunctionRule ==
    (/\ t_pc = "done" /\ Len(transformation) = 1
     /\ transformation[1].action = "function")
    => /\ t_result.error = "none"
       /\ t_result.row = <<RuleValue(transformation[1], t_row)>>

\* the part of C20 for a source field that is not at position 0
C20_LaterPositionPart ==
    (/\ t_pc = "done" /\ Len(transformation) = 1
     /\ transformation[1].action = "function"
     /\ index(TransFields, transformation[1].source) # 1)
    => /\ t_result.error = "none"
       /\ t_result.row = <<RuleValue(transformation[1], t_row)>>

\* ------------------------------------------------ properties of FieldMap
\* the input fields that are not dropped, renamed where the mapping has them
RECURSIVE Mapped(_, _, _)
Mapped(fields, rename, drop) ==
    IF fields = <<>> THEN <<>>
    ELSE (IF Head(fields).name \in drop THEN <<>>
          ELSE IF Head(fields).name \in DOMAIN rename
          THEN <<[Head(fields) EXCEPT !.name = rename[Head(fields).name]]>>
          ELSE <<Head(fields)>>)
         \o Mapped(Tail(fields), rename, drop)

\* C10: FieldMap.map returns a new FieldList holding, in input order, the
\* input fields that are not in the drop set, renamed where the rename
\* mapping has their name and otherwise equal to the input field.
C10_MapRenamesAndDrops ==
    fm_pc = "done" =>
        /\ fm_result.error = "none"
        /\ fm_result.list.fields = Mapped(fm_fields, fm_rename, fm_drop)
        /\ fm_result.list.field_names =
              [i \in 1..Len(fm_result.list.fields) |-> fm_result.list.fields[i].name]

\* C11: for the same FieldList, rename mapping and drop set, also with a field
\* named in both, FieldMapNode.output_fields and FieldMap.map return the same
\* sequence of field names.
C11_NodeMirrorsFieldMap ==
    (fm_pc = "done" /\ node_pc = "done") =>
        /\ fm_result.error = "none"
        /\ names(node_result) = names(fm_result.list)

\* ------------------------------------------------- properties of to_dict
\* the dict key of a row: one value for no key or a field name, the tuple of
\* the key fields' values for a list
DictKeyOf(row, k) ==
    IF k.kind = "None" THEN row[1]
    ELSE IF k.kind = "str" THEN row[index(StreamFields, k.names[1])]
    ELSE [i \in 1..Len(k.names) |-> row[index(StreamFields, k.names[i])]]

\* C15: to_dict returns, without an error and after the stream's end, a
\* mapping whose keys are exactly the key values occurring in the stream (a
\* single value, or the tuple of values for a list of key fields), each
\* mapped to the last row with that key.
C15_ToDictLastRow ==
    td_pc = "done" =>
        /\ td_error = "none"
        /\ DOMAIN td_d = {DictKeyOf(td_input[i], td_key) : i \in 1..Len(td_input)}
        /\ \A i \in 1..Len(td_input) :
              (\A j \in (i + 1)..Len(td_input) :
                  DictKeyOf(td_input[j], td_key) # DictKeyOf(td_input[i], td_key))
              => td_d[DictKeyOf(td_input[i], td_key)] = td_input[i]

\* the part of C15 for no key and for a single key field
C15_SingleKeyPart ==
    (td_pc = "done" /\ td_key.kind \in {"None", "str"}) =>
        /\ td_error = "none"
        /\ DOMAIN td_d = {DictKeyOf(td_input[i], td_key) : i \in 1..Len(td_input)}
        /\ \A i \in 1..Len(td_input) :
              (\A j \in (i + 1)..Len(td_input) :
                  DictKeyOf(td_input[j], td_key) # DictKeyOf(td_input[i], td_key))
              => td_d[DictKeyOf(td_input[i], td_key)] = td_input[i]

\* --------------------------------------------- properties of FieldMapNode
\* the upstream fields bear different names
UpstreamNamesUnique ==
    \A i, j \in 1..Len(fm_fields) : i # j => fm_fields[i].name # fm_fields[j].name

\* C23: the record FieldMapNode.run pushes for an upstream record with one
\* value per upstream field has exactly the field names of output_fields as
\* its keys, and holds under every renamed name the value of the source field.
C23_RunKeysAreOutputFields ==
    (run_pc = "done" /\ node_pc = "done" /\ UpstreamNamesUnique) =>
        /\ DOMAIN run_pushed = Range(names(node_result))
        /\ \A n \in DOMAIN run_record \cap DOMAIN fm_rename :
              /\ fm_rename[n] \in DOMAIN run_pushed
              /\ run_pushed[fm_rename[n]] = run_record[n]

\* the part of C23 for renames whose new names are neither dropped nor a name
\* of an upstream field nor themselves renamed
C23_PlainRenamePart ==
    (/\ run_pc = "done" /\ node_pc = "done" /\ UpstreamNamesUnique
     /\ \A n \in DOMAIN fm_rename :
           /\ fm_rename[n] \notin fm_drop
           /\ fm_rename[n] \notin DOMAIN run_record
           /\ fm_rename[n] \notin DOMAIN fm_rename) =>
        /\ DOMAIN run_pushed = Range(names(node_result))
        /\ \A n \in DOMAIN run_record \cap DOMAIN fm_rename :
              /\ fm_rename[n] \in DOMAIN run_pushed
              /\ run_pushed[fm_rename[n]] = run_record[n]

====
